---------------------------- MODULE Spec2Model ----------------------------
(***************************************************************************)
(* Model of capablerobot_usbhub/__init__.py: the register catalog built by *)
(* USBHub.__init__, the lookups find / find_name, register_read with its   *)
(* struct.pack framing, parse_register with the port remap, the key filter *)
(* register_keys and speeds().                                             *)
(*                                                                         *)
(* Python strings are TLA+ strings; where the code looks inside a string   *)
(* (sorted, startswith, key[0], replace) the model works on the string's   *)
(* code points, given by the table Chars.  Python exceptions are outcome   *)
(* records whose status is the exception class.  None is NoName for a name *)
(* and NoAddr for an address.  Python's unbounded ints that can exceed 31  *)
(* bits are kept exactly: a register value is the list of its base-256     *)
(* digits, most significant first and without leading zeros, and a 32-bit  *)
(* bus address is its pair of 16-bit halves.                               *)
(***************************************************************************)
EXTENDS Integers, Sequences, FiniteSets, TLC

VARIABLES
    cases,       \* the case table address -> register type of the schema
    definition,  \* the register types of the schema
    mapping,     \* self.mapping: the catalog name -> [address, bits, endian]
    op,          \* the call the caller made last, with its arguments
    ret,         \* what that call returned or raised
    transfer,    \* the control transfers that call issued
    stream,      \* the stream that call packed for the decoder
    decoded,     \* what the decoder made of the stream
    lastParsed   \* what parse_register returned

vars == <<cases, definition, mapping, op, ret, transfer, stream, decoded, lastParsed>>

----------------------------------------------------------------------------
(* Bounds of the model *)

\* longest reply, in bytes, the transport hands back
MaxReply == 4

\* largest `length` argument tried for a read by address
MaxLength == 1

----------------------------------------------------------------------------
(* Program constants *)

\* 0xBF800000, as its high and low 16 bits
REG_BASE_DFT == [hi |-> 49024, lo |-> 0]

PORT_MAP_Swapped == <<"port2", "port4", "port3", "port1">>

PORT_MAP == <<"port2", "port4", "port1", "port3">>

REGISTER_NEEDS_PORT_REMAP == {"port::connection", "port::device_speed"}

\* largest value of struct format 'B' and 'H' (standard sizes, '>' mode)
MaxU8 == 255

MaxU16 == 65535

NoName == "None"

NoAddr == -1

Unbound == -2

----------------------------------------------------------------------------
(* Python strings: code points, comparison, startswith *)

Chars(s) ==
    CASE s = "a"          -> <<97>>
      [] s = "d"          -> <<100>>
      [] s = "_c"         -> <<95, 99>>
      [] s = "_internal"  -> <<95, 105, 110, 116, 101, 114, 110, 97, 108>>
      [] s = "res"        -> <<114, 101, 115>>
      [] s = "reserved"   -> <<114, 101, 115, 101, 114, 118, 101, 100>>
      [] s = "reserved1"  -> <<114, 101, 115, 101, 114, 118, 101, 100, 49>>
      [] s = "reserved_b" -> <<114, 101, 115, 101, 114, 118, 101, 100, 95, 98>>
      [] s = "port1"      -> <<112, 111, 114, 116, 49>>
      [] s = "port2"      -> <<112, 111, 114, 116, 50>>
      [] s = "port3"      -> <<112, 111, 114, 116, 51>>
      [] s = "port4"      -> <<112, 111, 114, 116, 52>>
      [] s = "value"      -> <<118, 97, 108, 117, 101>>
      [] s = "_"          -> <<95>>
      [] s = "port"       -> <<112, 111, 114, 116>>

\* str.__lt__: lexicographic order on code points
RECURSIVE SeqLess(_, _)
SeqLess(s, t) ==
    IF t = <<>> THEN FALSE
    ELSE IF s = <<>> THEN TRUE
    ELSE IF Head(s) # Head(t) THEN Head(s) < Head(t)
    ELSE SeqLess(Tail(s), Tail(t))

StrLess(a, b) == SeqLess(Chars(a), Chars(b))

\* str.startswith
startswith(s, prefix) ==
    /\ Len(Chars(s)) >= Len(Chars(prefix))
    /\ SubSeq(Chars(s), 1, Len(Chars(prefix))) = Chars(prefix)

\* sorted(): ascending list of the members of a set of strings
RECURSIVE sorted(_)
sorted(S) ==
    IF S = {} THEN <<>>
    ELSE LET m == CHOOSE x \in S : \A y \in S \ {x} : StrLess(x, y)
         IN  <<m>> \o sorted(S \ {m})

\* Python's ~ on a bool: ~True = -2, ~False = -1
Invert(b) == IF b THEN -2 ELSE -1

\* truth value of an int
Truthy(i) == i # 0

Range(s) == {s[i] : i \in 1..Len(s)}

----------------------------------------------------------------------------
(* register_keys *)

\* lambda key: key[0] != '_' and ~key.startswith("reserved")
KeepKey(key) == Chars(key)[1] # 95 /\ Truthy(Invert(startswith(key, "reserved")))

\* filter(lambda, keys): the keys the lambda is true of, in order
RECURSIVE filter(_)
filter(keys) ==
    IF keys = <<>> THEN <<>>
    ELSE IF KeepKey(Head(keys)) THEN <<Head(keys)>> \o filter(Tail(keys))
    ELSE filter(Tail(keys))

register_keys(body) == filter(sorted(DOMAIN body))

----------------------------------------------------------------------------
(* Ordered dictionaries (dict keeps insertion order): a list of entries *)

\* d[k] = v: an existing key keeps its position, a new key goes last
RECURSIVE DictSet(_, _, _)
DictSet(d, k, v) ==
    IF d = <<>> THEN <<[k |-> k, v |-> v]>>
    ELSE IF Head(d).k = k THEN <<[k |-> k, v |-> v]>> \o Tail(d)
    ELSE <<Head(d)>> \o DictSet(Tail(d), k, v)

DictKeys(d) == {d[i].k : i \in 1..Len(d)}

DictGet(d, k) == d[CHOOSE i \in 1..Len(d) : d[i].k = k].v

----------------------------------------------------------------------------
(* The schema read from formats/*.ksy, and the catalog built from it *)

\* register names of the catalog (after the 'usb4715_' prefix is removed)
Names == {"port::connection", "port::device_speed", "main::revision"}

\* names in the case table: 'usb4715_' + name when prefix, else name
RawKeys ==
    [prefix : {TRUE}, name : Names] \cup [prefix : {FALSE}, name : {"port::connection"}]

\* register addresses of the case table (16-bit offsets)
Addrs == {12692, MaxU16}

Field(id, bits) == [id |-> id, bits |-> bits]

\* register types: seq of fields `id: bN`, and meta.endian
TConn == [seq |-> <<Field("port1", 1), Field("port2", 1), Field("port3", 1),
                    Field("port4", 1), Field("reserved1", 4)>>, endian |-> "absent"]

TSpeed == [seq |-> <<Field("port1", 2), Field("port2", 2), Field("port3", 2),
                     Field("port4", 2)>>, endian |-> "be"]

TSpeedR == [seq |-> <<Field("port1", 2), Field("port2", 2), Field("port3", 2),
                      Field("port4", 2), Field("reserved1", 8)>>, endian |-> "le"]

TPart == [seq |-> <<Field("port1", 4), Field("port3", 4)>>, endian |-> "absent"]

TWord == [seq |-> <<Field("value", 16)>>, endian |-> "le"]

T24 == [seq |-> <<Field("a", 8), Field("d", 16)>>, endian |-> "absent"]

T32 == [seq |-> <<Field("a", 8), Field("reserved_b", 8), Field("d", 16)>>, endian |-> "le"]

T12 == [seq |-> <<Field("a", 4), Field("d", 8)>>, endian |-> "absent"]

T40 == [seq |-> <<Field("value", 16), Field("a", 8), Field("d", 16)>>, endian |-> "be"]

\* the layouts tried for each register type
TypesFor(name) ==
    CASE name = "port::connection"   -> {TConn, TPart, T12}
      [] name = "port::device_speed" -> {TSpeed, TSpeedR}
      [] name = "main::revision"     -> {TWord, T24, T32, T40, TConn}

\* case tables: a dict address -> raw key, in document order
CaseTables ==
    {<<>>}
    \cup {<<[k |-> a, v |-> r]>> : a \in Addrs, r \in RawKeys}
    \cup {<<[k |-> ab[1], v |-> r], [k |-> ab[2], v |-> q]>> :
              ab \in {x \in Addrs \X Addrs : x[1] # x[2]}, r \in RawKeys, q \in RawKeys}

\* k.replace('usb4715_', '')
StripPrefix(k) == k.name

RECURSIVE SumBits(_)
SumBits(seq) == IF seq = <<>> THEN 0 ELSE Head(seq).bits + SumBits(Tail(seq))

get_register_length_fields(defn, key) == Len(defn[key].seq)

get_register_length(defn, key) == SumBits(defn[key].seq)

get_register_endian(defn, key) == IF defn[key].endian = "le" THEN "little" ELSE "big"

\* {v:k for k,v in mapping.items()}
RECURSIVE Flip(_, _)
Flip(d, acc) ==
    IF d = <<>> THEN acc ELSE Flip(Tail(d), DictSet(acc, Head(d).v, Head(d).k))

\* {k.replace('usb4715_',''): [v, length(k), endian(k)] for k,v in mapping.items()}
RECURSIVE BuildMapping(_, _, _)
BuildMapping(defn, d, acc) ==
    IF d = <<>> THEN acc
    ELSE BuildMapping(defn, Tail(d),
             DictSet(acc, StripPrefix(Head(d).k),
                     [register |-> Head(d).v,
                      bits     |-> get_register_length(defn, Head(d).k),
                      endian   |-> get_register_endian(defn, Head(d).k)]))

USBHub_init(cs, defn) == BuildMapping(defn, Flip(cs, <<>>), <<>>)

----------------------------------------------------------------------------
(* Catalog lookups *)

Raise(status, msg) ==
    [status |-> status, msg |-> msg, register |-> NoAddr, bits |-> Unbound,
     endian |-> "unbound"]

SupportedBits == {8, 16, 24, 32}

find_unchecked(m, name) ==
    IF name \in DictKeys(m)
    THEN LET e == DictGet(m, name)
         IN  [status |-> "ok", msg |-> "", register |-> e.register,
              bits |-> e.bits, endian |-> e.endian]
    ELSE Raise("ValueError", "Unknown register name")

find(m, name) ==
    IF name \in DictKeys(m)
    THEN LET e == DictGet(m, name)
         IN  IF e.bits \in SupportedBits
             THEN [status |-> "ok", msg |-> "", register |-> e.register,
                   bits |-> e.bits, endian |-> e.endian]
             ELSE Raise("ValueError", "Register has bits")
    ELSE Raise("ValueError", "Unknown register name")

find_name_by_bits(m, register) ==
    LET hits == {i \in 1..Len(m) : m[i].v.bits = register}
    IN  IF hits # {}
        THEN [status |-> "ok", msg |-> "",
              name |-> m[CHOOSE i \in hits : \A j \in hits : i <= j].k]
        ELSE IF register = NoAddr
        THEN [status |-> "TypeError", msg |-> "hex(None)", name |-> NoName]
        ELSE [status |-> "ValueError", msg |-> "Unknown register address",
              name |-> NoName]

\* the first entry of the catalog, in order, whose address is `register`;
\* hex(None) in the error message raises TypeError
find_name(m, register) ==
    LET hits == {i \in 1..Len(m) : m[i].v.register = register}
    IN  IF hits # {}
        THEN [status |-> "ok", msg |-> "",
              name |-> m[CHOOSE i \in hits : \A j \in hits : i <= j].k]
        ELSE IF register = NoAddr
        THEN [status |-> "TypeError", msg |-> "hex(None)", name |-> NoName]
        ELSE [status |-> "ValueError", msg |-> "Unknown register address",
              name |-> NoName]

----------------------------------------------------------------------------
(* Bytes and integers: util.int_from_bytes, util.bits_to_bytes, struct.pack *)

RECURSIVE Pow2(_)
Pow2(n) == IF n = 0 THEN 1 ELSE 2 * Pow2(n - 1)

Reverse(s) == [i \in 1..Len(s) |-> s[Len(s) + 1 - i]]

\* big-endian value of a list of bytes
RECURSIVE FromBE(_)
FromBE(bytes) ==
    IF bytes = <<>> THEN 0
    ELSE FromBE(SubSeq(bytes, 1, Len(bytes) - 1)) * 256 + bytes[Len(bytes)]

\* x as n big-endian bytes
RECURSIVE ToBE(_, _)
ToBE(x, n) == IF n = 0 THEN <<>> ELSE ToBE(x \div 256, n - 1) \o <<x % 256>>

\* an int as its base-256 digits: no leading zero digit, 0 is the empty list
RECURSIVE Digits(_)
Digits(bytes) ==
    IF bytes # <<>> /\ Head(bytes) = 0 THEN Digits(Tail(bytes)) ELSE bytes

\* n zero bytes
Zeros(n) == [i \in 1..n |-> 0]

\* value << shift, for a shift of whole bytes
ShiftLeft(value, shift) == IF value = <<>> THEN <<>> ELSE value \o Zeros(shift \div 8)

int_from_bytes(data, endian) ==
    Digits(IF endian = "little" THEN Reverse(data) ELSE data)

bits_to_bytes(bits) == bits \div 8

\* size in bytes of the struct format codes used
CodeSize(code) == CASE code = "B" -> 1 [] code = "H" -> 2 [] code = "L" -> 4

\* struct.pack(">HB" + code, address, num, value): the three fields in big-endian
\* order without padding; struct.error when a number does not fit its field
struct_pack(code, address, num, value) ==
    IF /\ address \in 0..MaxU16
       /\ num \in 0..MaxU8
       /\ Len(value) <= CodeSize(code)
    THEN [status |-> "ok",
          bytes  |-> ToBE(address, 2) \o ToBE(num, 1)
                        \o Zeros(CodeSize(code) - Len(value)) \o value]
    ELSE [status |-> "struct.error", bytes |-> <<>>]

----------------------------------------------------------------------------
(* registers.parse: the decoder generated from the schema *)

NoParsed == [addr |-> NoAddr, len |-> 0, keys |-> <<>>, body |-> <<>>]

\* the bits of a list of bytes, most significant first
RECURSIVE BitsOf(_)
BitsOf(bytes) ==
    IF bytes = <<>> THEN <<>>
    ELSE [i \in 1..8 |-> (Head(bytes) \div Pow2(8 - i)) % 2] \o BitsOf(Tail(bytes))

RECURSIVE FromBits(_)
FromBits(bits) ==
    IF bits = <<>> THEN 0
    ELSE FromBits(SubSeq(bits, 1, Len(bits) - 1)) * 2 + bits[Len(bits)]

\* number of bits of seq before field i
RECURSIVE BitsBefore(_, _)
BitsBefore(seq, i) == IF i = 1 THEN 0 ELSE BitsBefore(seq, i - 1) + seq[i - 1].bits

\* the type of the body is switched on the address; the body's bits are cut,
\* most significant first, into the fields of the type's seq
registers_parse(cs, defn, s) ==
    LET addr  == FromBE(SubSeq(s, 1, 2))
        seq   == defn[DictGet(cs, addr)].seq
        bits  == BitsOf(SubSeq(s, 4, Len(s)))
        val(i) == FromBits(SubSeq(bits, BitsBefore(seq, i) + 1,
                                  BitsBefore(seq, i) + seq[i].bits))
        idx(k) == CHOOSE i \in 1..Len(seq) : seq[i].id = k
    IN  [addr |-> addr,
         len  |-> s[3],
         keys |-> [i \in 1..Len(seq) |-> seq[i].id],
         body |-> [k \in {seq[i].id : i \in 1..Len(seq)} |-> val(idx(k))]]

----------------------------------------------------------------------------
(* parse_register: decode, then remap the ports of the two listed registers *)

\* int(key.replace("port", "")) for a key of PORT_MAP
PortNumber(key) == Chars(key)[Len(Chars("port")) + 1] - 48

\* parsed.body[port] = value
BodySet(parsed, port, value) ==
    [parsed EXCEPT
        !.keys = IF port \in DOMAIN parsed.body THEN @ ELSE Append(@, port),
        !.body = [k \in DOMAIN parsed.body \cup {port} |->
                     IF k = port THEN value ELSE parsed.body[k]]]

RemapValueAliased(raw, parsed, key) == parsed.body[key]

\* the value the loop reads for key: it iterates over raw, a deep copy
RemapValue(raw, parsed, key) == raw.body[key]

\* for key, value in raw.body.items(): ...
RECURSIVE RemapLoop(_, _, _)
RemapLoop(raw, ks, parsed) ==
    IF ks = <<>> THEN parsed
    ELSE IF Head(ks) \in Range(PORT_MAP)
    THEN RemapLoop(raw, Tail(ks),
             BodySet(parsed, PORT_MAP[PortNumber(Head(ks))],
                     RemapValue(raw, parsed, Head(ks))))
    ELSE RemapLoop(raw, Tail(ks), parsed)

NeedsRemap(name) == name \in REGISTER_NEEDS_PORT_REMAP

parse_register(cs, defn, name, s) ==
    LET parsed == registers_parse(cs, defn, s)
    IN  IF NeedsRemap(name) THEN RemapLoop(parsed, parsed.keys, parsed) ELSE parsed

----------------------------------------------------------------------------
(* register_read *)

Fail(status, msg) == [status |-> status, msg |-> msg, value |-> <<>>]

Ok(value) == [status |-> "ok", msg |-> "", value |-> value]

ShiftNone(bits) == 0

\* shift = 8 for a 24-bit register, else 0
Shift(bits) == IF bits = 24 THEN 8 ELSE 0

\* the struct format code of the value; no branch assigns it for another width
Code(bits) ==
    CASE bits = 8 -> "B" [] bits = 16 -> "H" [] bits = 24 -> "L" [] bits = 32 -> "L"
      [] OTHER -> "unbound"

\* struct.pack(">HB" + code, *[address, num, value << shift])
PackStream(address, bits, value) ==
    struct_pack(Code(bits), address, bits_to_bytes(bits), ShiftLeft(value, Shift(bits)))

Outcome(r, t, s, d, p) ==
    [ret |-> r, transfer |-> t, stream |-> s, decoded |-> d, parsed |-> p]

Raised(status, msg, t) == Outcome(Fail(status, msg), t, <<>>, NoParsed, NoParsed)

\* if length != len(data)
LengthMismatch(length, data) == length # Len(data)

\* the part of register_read after the control transfer returned `data`
AfterTransfer(cs, defn, name, address, bits, endian, length, t, data) ==
    IF LengthMismatch(length, data)
    THEN Raised("ValueError", "Incorrect data length", t)
    ELSE IF bits = Unbound
    THEN Raised("UnboundLocalError", "bits", t)
    ELSE IF Code(bits) = "unbound"
    THEN Raised("UnboundLocalError", "code", t)
    ELSE LET value == int_from_bytes(data, endian)
             p     == PackStream(address, bits, value)
             reg   == parse_register(cs, defn, name, p.bytes)
         IN  IF p.status # "ok"
             THEN Raised(p.status, "pack", t)
             ELSE Outcome(Ok([data |-> Reverse(data), parsed |-> reg]),
                          t, p.bytes, registers_parse(cs, defn, p.bytes), reg)

\* None, for a 32-bit bus address
NoBus == [hi |-> NoAddr, lo |-> NoAddr]

\* address + self.REG_BASE_DFT
AddBase(address) ==
    [hi |-> REG_BASE_DFT.hi + (REG_BASE_DFT.lo + address) \div 65536,
     lo |-> (REG_BASE_DFT.lo + address) % 65536]

\* the control transfer: value = addr & 0xFFFF, index = addr >> 16
Transfer(cs, defn, name, address, bits, endian, addr, length, data) ==
    IF addr = NoBus
    THEN Raised("ValueError", "Must specify an name or address", <<>>)
    ELSE AfterTransfer(cs, defn, name, address, bits, endian, length,
             <<[wValue |-> addr.lo, wIndex |-> addr.hi,
                length |-> length, data |-> data]>>, data)

register_read(cs, defn, m, name, addr, length, data) ==
    IF name # NoName
    THEN LET f == find(m, name)
         IN  IF f.status # "ok"
             THEN Raised(f.status, f.msg, <<>>)
             ELSE Transfer(cs, defn, name, f.register, f.bits, f.endian,
                           AddBase(f.register), f.bits \div 8, data)
    ELSE LET n == find_name(m, addr)
         IN  IF n.status # "ok"
             THEN Raised(n.status, n.msg, <<>>)
             ELSE Transfer(cs, defn, n.name, Unbound, Unbound, "unbound",
                           IF addr = NoAddr THEN NoBus
                           ELSE [hi |-> addr \div 65536, lo |-> addr % 65536],
                           length, data)

----------------------------------------------------------------------------
(* speeds *)

SpeedLabelsSwapped == <<"none", "full", "low", "high">>

SpeedLabels == <<"none", "low", "full", "high">>

\* [speeds[speed.body[key]] for key in register_keys(speed)]
speeds(cs, defn, m, data) ==
    LET r == register_read(cs, defn, m, "port::device_speed", NoAddr, 1, data)
    IN  IF r.ret.status # "ok" THEN r
        ELSE LET body == r.ret.value.parsed.body
                 keys == register_keys(body)
             IN  IF \E i \in 1..Len(keys) : body[keys[i]] >= Len(SpeedLabels)
                 THEN [r EXCEPT !.ret = Fail("IndexError", "speeds")]
                 ELSE [r EXCEPT !.ret =
                          Ok([i \in 1..Len(keys) |-> SpeedLabels[body[keys[i]] + 1]])]

----------------------------------------------------------------------------
(* The state machine: the catalog is built once; then one call at a time *)

\* bytes the transport may hand back
ByteVals == {0, 45, 165}

RECURSIVE SeqsUpTo(_, _)
SeqsUpTo(S, n) ==
    IF n = 0 THEN {<<>>}
    ELSE LET shorter == SeqsUpTo(S, n - 1)
         IN  shorter \cup {Append(s, x) : s \in {t \in shorter : Len(t) = n - 1}, x \in S}

Replies == SeqsUpTo(ByteVals, MaxReply)

\* field names of the bodies handed to register_keys
KeyPool == {"a", "d", "_c", "reserved_b", "res", "reserved"}

KeyVal(k) ==
    CASE k = "a" -> 1 [] k = "reserved_b" -> 2 [] k = "_c" -> 3 [] k = "d" -> 4
      [] OTHER -> 0

Idle == [call |-> "idle", name |-> NoName, addr |-> NoAddr, length |-> 0, body |-> <<>>]

Call(c, name, addr, length, body) ==
    [call |-> c, name |-> name, addr |-> addr, length |-> length, body |-> body]

Init ==
    /\ cases \in CaseTables
    /\ definition \in
          {d \in [{cases[i].v : i \in 1..Len(cases)} -> UNION {TypesFor(n) : n \in Names}] :
              \A k \in DOMAIN d : d[k] \in TypesFor(k.name)}
    /\ mapping = USBHub_init(cases, definition)
    /\ op = Idle
    /\ ret = Ok(<<>>)
    /\ transfer = <<>>
    /\ stream = <<>>
    /\ decoded = NoParsed
    /\ lastParsed = NoParsed

Schema == <<cases, definition, mapping>>

Leave(o) ==
    /\ ret' = o.ret
    /\ transfer' = o.transfer
    /\ stream' = o.stream
    /\ decoded' = o.decoded
    /\ lastParsed' = o.parsed
    /\ UNCHANGED Schema

Find ==
    /\ op.call = "idle"
    /\ \E name \in Names \cup {"port::unknown"} :
          /\ op' = Call("find", name, NoAddr, 0, <<>>)
          /\ LET f == find(mapping, name)
             IN  ret' = IF f.status = "ok"
                        THEN Ok([register |-> f.register, bits |-> f.bits,
                                 endian |-> f.endian])
                        ELSE Fail(f.status, f.msg)
    /\ UNCHANGED <<Schema, transfer, stream, decoded, lastParsed>>

FindName ==
    /\ op.call = "idle"
    /\ \E addr \in Addrs \cup {0, NoAddr} :
          /\ op' = Call("find_name", NoName, addr, 0, <<>>)
          /\ LET n == find_name(mapping, addr)
             IN  ret' = IF n.status = "ok" THEN Ok(n.name) ELSE Fail(n.status, n.msg)
    /\ UNCHANGED <<Schema, transfer, stream, decoded, lastParsed>>

RegisterReadByName ==
    /\ op.call = "idle"
    /\ \E name \in Names \cup {"port::unknown"}, data \in Replies :
          LET o == register_read(cases, definition, mapping, name, NoAddr, 1, data)
          IN  /\ op' = Call("register_read", name, NoAddr, 1, <<>>)
              /\ Leave(o)

RegisterReadByAddr ==
    /\ op.call = "idle"
    /\ \E addr \in Addrs \cup {0, NoAddr}, length \in 0..MaxLength, data \in Replies :
          LET o == register_read(cases, definition, mapping, NoName, addr, length, data)
          IN  /\ op' = Call("register_read", NoName, addr, length, <<>>)
              /\ Leave(o)

RegisterKeys ==
    /\ op.call = "idle"
    /\ \E ks \in SUBSET KeyPool :
          LET body == [k \in ks |-> KeyVal(k)]
          IN  /\ op' = Call("register_keys", NoName, NoAddr, 0, body)
              /\ ret' = Ok(register_keys(body))
    /\ UNCHANGED <<Schema, transfer, stream, decoded, lastParsed>>

Speeds ==
    /\ op.call = "idle"
    /\ \E data \in Replies :
          /\ op' = Call("speeds", NoName, NoAddr, 0, <<>>)
          /\ Leave(speeds(cases, definition, mapping, data))

\* the caller drops the result and is ready for the next call
Return ==
    /\ op.call # "idle"
    /\ op' = Idle
    /\ ret' = Ok(<<>>)
    /\ transfer' = <<>>
    /\ stream' = <<>>
    /\ decoded' = NoParsed
    /\ lastParsed' = NoParsed
    /\ UNCHANGED Schema

Next ==
    \/ Find
    \/ FindName
    \/ RegisterReadByName
    \/ RegisterReadByAddr
    \/ RegisterKeys
    \/ Speeds
    \/ Return

Spec == Init /\ [][Next]_vars

----------------------------------------------------------------------------
(* Properties *)

Ports == {"port1", "port2", "port3", "port4"}

Supported(bits) == bits = 8 \/ bits = 16 \/ bits = 24 \/ bits = 32

InCatalog(name) == \E i \in 1..Len(mapping) : mapping[i].k = name

Entry(name) == mapping[CHOOSE i \in 1..Len(mapping) : mapping[i].k = name].v

ReadByName == op.call = "register_read" /\ op.name # NoName

ReadByAddr == op.call = "register_read" /\ op.name = NoName

\* the register the last call decoded, when it got as far as the decoder
DecodedName == IF op.call = "speeds" THEN "port::device_speed" ELSE op.name

Decoder == stream # <<>>

IsAscendingListOf(list, S) ==
    /\ Range(list) = S
    /\ Len(list) = Cardinality(S)
    /\ \A i \in 1..Len(list) : \A j \in 1..Len(list) :
          i < j => StrLess(list[i], list[j])

\* C1: register_keys returns, in ascending order, exactly the field names that
\* start neither with 'reserved' nor with '_'.
C1_VisibleFields ==
    op.call = "register_keys" =>
        IsAscendingListOf(ret.value,
            {k \in DOMAIN op.body :
                ~startswith(k, "reserved") /\ ~startswith(k, "_")})

\* C2 as stated: after the remap of 'port::connection' or 'port::device_speed',
\* each of port1..port4 still holds the value the decoder gave it.
C2_PortsUntouched ==
    (Decoder /\ DecodedName \in {"port::connection", "port::device_speed"}) =>
        \A p \in Ports \cap DOMAIN decoded.body :
            lastParsed.body[p] = decoded.body[p]

\* C2 amended: the remap keeps every field of the decoder, and leaves every
\* field other than port1..port4 with the decoder's value; port1..port4 are
\* overwritten: when the decoder produced all four, no field is added and
\* port1, port2, port3, port4 end up with the decoder's port3, port1, port4,
\* port2.
C2_PortsPermuted ==
    (Decoder /\ DecodedName \in {"port::connection", "port::device_speed"}) =>
        /\ DOMAIN decoded.body \subseteq DOMAIN lastParsed.body
        /\ \A k \in DOMAIN decoded.body \ Ports :
              lastParsed.body[k] = decoded.body[k]
        /\ Ports \subseteq DOMAIN decoded.body =>
              /\ DOMAIN lastParsed.body = DOMAIN decoded.body
              /\ lastParsed.keys = decoded.keys
              /\ lastParsed.body["port1"] = decoded.body["port3"]
              /\ lastParsed.body["port2"] = decoded.body["port1"]
              /\ lastParsed.body["port3"] = decoded.body["port4"]
              /\ lastParsed.body["port4"] = decoded.body["port2"]

C2_Witness ==
    /\ Decoder
    /\ DecodedName = "port::connection"
    /\ Ports \subseteq DOMAIN decoded.body
    /\ decoded.body["port1"] = 1 /\ decoded.body["port2"] = 0
    /\ decoded.body["port3"] = 1 /\ decoded.body["port4"] = 0
    /\ lastParsed.body["port2"] = 1

\* C3: for the two listed names the body returned by parse_register holds, for
\* every N in 1..4, under the N-th name of [port2, port4, port1, port3] the
\* value portN had right after decoding; for any other name the body returned
\* is the decoder's.
C3_RemapFromDecoded ==
    Decoder =>
        IF DecodedName \in {"port::connection", "port::device_speed"}
        THEN \A N \in 1..4 :
                LET portN  == <<"port1", "port2", "port3", "port4">>[N]
                    target == <<"port2", "port4", "port1", "port3">>[N]
                IN  portN \in DOMAIN decoded.body =>
                        /\ target \in DOMAIN lastParsed.body
                        /\ lastParsed.body[target] = decoded.body[portN]
        ELSE lastParsed = decoded

C3_Witness ==
    /\ Decoder
    /\ DecodedName = "port::device_speed"
    /\ Ports \subseteq DOMAIN decoded.body
    /\ decoded.body["port1"] = 2 /\ decoded.body["port2"] = 2
    /\ decoded.body["port3"] = 1 /\ decoded.body["port4"] = 1
    /\ lastParsed.body["port4"] = 2 /\ lastParsed.body["port3"] = 1

\* C4: find(name) fails with an unknown-name error when name is not in the
\* catalog, fails with an unsupported-width error when the catalog's width for
\* name is not 8, 16, 24 or 32, and otherwise returns what the catalog stores
\* for name; no step changes the catalog.
C4_FindOutcomes ==
    /\ [](op.call = "find" =>
            IF ~InCatalog(op.name)
            THEN ret = Fail("ValueError", "Unknown register name")
            ELSE IF ~Supported(Entry(op.name).bits)
            THEN ret = Fail("ValueError", "Register has bits")
            ELSE ret = Ok(Entry(op.name)))
    /\ [][mapping' = mapping]_vars

C4_Witness ==
    /\ op.call = "find"
    /\ InCatalog(op.name)
    /\ ~Supported(Entry(op.name).bits)
    /\ ret.status = "ValueError"

\* C5 as stated: for every name n of the catalog, find(n) returns an address
\* and find_name of that address is n.
C5_RoundTripEveryName ==
    \A n \in DictKeys(mapping) :
        /\ find(mapping, n).status = "ok"
        /\ find_name(mapping, find(mapping, n).register) = [status |-> "ok", msg |-> "", name |-> n]

\* C5 amended: for every name n of the catalog for which find(n) succeeds
\* (its width is 8, 16, 24 or 32), find_name(find(n).address) is n; for the
\* other names find(n) raises and there is no address to look up.
C5_RoundTrip ==
    op.call = "find_name" =>
        \A n \in DictKeys(mapping) :
            IF find(mapping, n).status = "ok"
            THEN find(mapping, n).register = op.addr => ret = Ok(n)
            ELSE find(mapping, n) = Raise("ValueError", "Register has bits")

C5_Witness ==
    /\ op.call = "find_name"
    /\ Len(mapping) = 2
    /\ \E n \in DictKeys(mapping) :
          /\ find(mapping, n).status = "ok"
          /\ find(mapping, n).register = op.addr
          /\ mapping[2].k = n
          /\ ret = Ok(n)

\* C6 as stated: every register of the catalog has a width of 8, 16, 24 or 32
\* bits.
C6_AllWidthsSupported ==
    \A i \in 1..Len(mapping) : Supported(mapping[i].v.bits)

\* C6 amended: building the catalog checks no width: every entry holds the sum
\* of the field widths of its register type, whatever it is; a width other
\* than 8, 16, 24 or 32 is reported only when the register is looked up, and
\* a read by name of such a register fails with the unsupported-width error
\* before any transfer is issued.
C6_WidthCheckedOnLookup ==
    /\ \A i \in 1..Len(mapping) :
          mapping[i].v.bits =
              SumBits(definition[DictGet(cases, mapping[i].v.register)].seq)
    /\ (ReadByName /\ InCatalog(op.name) /\ ~Supported(Entry(op.name).bits)) =>
          /\ ret = Fail("ValueError", "Register has bits")
          /\ transfer = <<>>
          /\ stream = <<>>

C6_Witness ==
    /\ ReadByName
    /\ InCatalog(op.name)
    /\ Entry(op.name).bits = 40
    /\ ret.status = "ValueError"

\* C7: for a read by name of a register of width w whose reply has w/8 bytes
\* of value v, the stream handed to the decoder is the catalog address in 2
\* big-endian bytes, the byte w/8, then v big-endian in 1, 2 or 4 bytes for
\* w = 8, 16, 32 and v*256 big-endian in 4 bytes for w = 24; the pack never
\* fails, and v is the value field (its top 3 bytes for w = 24).
C7_StreamLayout ==
    (ReadByName /\ transfer # <<>>) =>
        LET e    == Entry(op.name)
            n    == e.bits \div 8
            data == transfer[1].data
            v    == IF e.endian = "little" THEN Reverse(data) ELSE data
        IN  Len(data) = n =>
                /\ ret.status = "ok"
                /\ Len(stream) = IF e.bits = 8 THEN 4 ELSE IF e.bits = 16 THEN 5 ELSE 7
                /\ stream[1] * 256 + stream[2] = e.register
                /\ stream[3] = n
                /\ SubSeq(stream, 4, 3 + n) = v
                /\ e.bits = 24 => stream[7] = 0
                /\ e.bits # 32 => FromBE(SubSeq(stream, 4, 3 + n)) = FromBE(v)

C7_Witness ==
    /\ ReadByName
    /\ ret.status = "ok"
    /\ Entry(op.name).bits = 24
    /\ stream = <<255, 255, 3, 45, 0, 165, 0>>

\* C8: whenever the transport returns a number of bytes different from the
\* register's width in bytes, register_read fails with the length-mismatch
\* error and nothing is packed, decoded or remapped.
C8_LengthMismatch ==
    (op.call = "register_read" /\ transfer # <<>>) =>
        LET name == IF ReadByName THEN op.name ELSE find_name(mapping, op.addr).name
        IN  Len(transfer[1].data) # Entry(name).bits \div 8 =>
                /\ ret = Fail("ValueError", "Incorrect data length")
                /\ stream = <<>>
                /\ decoded = NoParsed
                /\ lastParsed = NoParsed

Label(c) == <<"none", "low", "full", "high">>[c + 1]

C10_ReadByAddress ==
    ReadByAddr =>
        /\ op.addr = NoAddr =>
              ret = Fail("ValueError", "Must specify an name or address")
        /\ (transfer # <<>> /\ find_name(mapping, op.addr).status = "ok") =>
              LET name == find_name(mapping, op.addr).name
              IN  Len(transfer[1].data) = Entry(name).bits \div 8 =>
                      /\ ret.status = "ok"
                      /\ ret.value.data = Reverse(transfer[1].data)
                      /\ ret.value.parsed = lastParsed

============================================================================
